---- MODULE Spec2Model ----
(***************************************************************************)
(* The sequential DICOM element readers of core/src/data/iterator.rs:      *)
(* DicomElementIterator (eager: every element comes with its decoded       *)
(* value), LazyDicomElementIterator (lazy: every element comes as a        *)
(* DicomElementMarker, header plus offset of the value) and the marker's   *)
(* operations get_data_stream and move_to_start.                           *)
(*                                                                         *)
(* The byte source is a finite sequence of cells.  One cell stands for one *)
(* encoded element header, one encoded item/delimiter token or one value   *)
(* byte: the wire layout of a header belongs to the codec (data::parser),  *)
(* which is not part of iterator.rs.  Offsets count cells from 0, as the   *)
(* u64 positions of the code count bytes from 0.                           *)
(***************************************************************************)
EXTENDS Integers, Sequences, FiniteSets, TLC

\* ---------------------------------------------------------------- bounds
\* Longest source of the unconstrained specification (cells).
MaxSrcLen == 3
\* Longest declared value length of a generated element header.
MaxValueLen == 1
\* Most elements of a generated well-formed flat stream or sequence item.
MaxElems == 2
\* Most items of a generated well-formed sequence.
MaxItems == 2
\* Most elements of one item of a generated well-formed sequence.
MaxItemElems == 1
\* next() calls answered with None that are still recorded.
MaxNone == 2
\* Longest source of the specification of nested sequences (cells).
MaxNestLen == 5
\* next() calls recorded in the specification of a shared source.
MaxSharedCalls == 4

\* ------------------------------------------------------------ data model
\* The largest u32.  TLC's integers end at 2^31 - 1, which here stands for
\* u32::MAX = 2^32 - 1; every other number of the model is far below it.
U32Max == 2147483647

\* The length value that stands for "undefined length" (all bits set).
UndefinedLength == U32Max

\* Tag(0x0008, 0x0005), the specific character set attribute.
CharSetTag == <<8, 5>>
\* Tag(0x0010, 0x0010), a plain attribute (patient name).
NameTag == <<16, 16>>
\* Tag(0x0008, 0x1140), an attribute holding a sequence.
SeqTag == <<8, 4416>>
\* Tag(0xFFFE, 0xE000 / 0xE00D / 0xE0DD): item, item delimiter, sequence delimiter.
ItemTag == <<65534, 57344>>
ItemDelimiterTag == <<65534, 57357>>
SequenceDelimiterTag == <<65534, 57565>>
\* The tag a header decoded out of value bytes carries.
GarbageTag == <<17219, 17219>>

\* DataElementHeader { tag, vr, len }.
DataElementHeader(tag, vr, len) == [tag |-> tag, vr |-> vr, len |-> len]

\* The header slot of a step that produced no header.
NoHeader == DataElementHeader(<<0, 0>>, "UN", 0)

\* Value bytes: 67 'C', 83 'S', and 255, which no text or number decoding accepts.
GoodBytes == {67, 83}
BadByte == {255}

HeaderCell(h) == [k |-> "hdr", h |-> h]
BoundaryCell(b, len) == [k |-> "bnd", b |-> b, len |-> len]
ByteCell(v) == [k |-> "byte", v |-> v]

\* From<SequenceItemHeader> for DataElementHeader: a boundary as a header, VR "UN".
ItemHeaderInto(b, len) ==
    CASE b = "Item" -> DataElementHeader(ItemTag, "UN", len)
      [] b = "ItemDelimiter" -> DataElementHeader(ItemDelimiterTag, "UN", 0)
      [] b = "SequenceDelimiter" -> DataElementHeader(SequenceDelimiterTag, "UN", 0)

VARIABLES
    src,         \* the byte source's content, a sequence of cells
    unreliable,  \* TRUE when the source's position query (seek) may fail
    eager,       \* DicomElementIterator: [pos, depth, in_sequence, hard_break]
    e_out,       \* what the eager iterator's next() calls returned, in order
    lazy,        \* LazyDicomElementIterator: [pos, depth, in_sequence, hard_break]
    l_out,       \* what the lazy iterator's next() calls returned, in order
    marker,      \* a DicomElementMarker [header, pos] held by a caller
    cursor,      \* position of the source handle the marker operations are given
    window,      \* the SeekInterval bound by get_data_stream, or NoWindow
    win_read,    \* offsets of the cells read through the window since it was bound
    win_end,     \* TRUE once a read through the window returned no byte
    seq_read,    \* offsets of the cells read sequentially since move_to_start
    seq_from     \* "none", or "start" once move_to_start positioned the source

vars == <<src, unreliable, eager, e_out, lazy, l_out,
          marker, cursor, window, win_read, win_end, seq_read, seq_from>>

iterVars == <<eager, e_out, lazy, l_out>>
markerVars == <<marker, cursor, window, win_read, win_end, seq_read, seq_from>>

Seqs(S, n) == UNION {[1..k -> S] : k \in 0..n}

\* --------------------------------------------------------------- codec
\* The codec (data::parser::Parse) is used by iterator.rs and lives outside it.

Failed(p) == [ok |-> FALSE, header |-> NoHeader, b |-> "none", pos |-> p]

\* decode_header(source): the outcomes of decoding one element header at offset p.
\* Past the end of the source it fails.  At an encoded header it returns that
\* header.  At an item/delimiter token it fails or returns the token as a header
\* with VR "UN"; at a value byte it fails or returns a header made of those bytes.
DecodeHeader(p) ==
    IF p >= Len(src) THEN {Failed(Len(src))}
    ELSE LET c == src[p + 1] IN
         CASE c.k = "hdr" ->
                {[ok |-> TRUE, header |-> c.h, b |-> "none", pos |-> p + 1]}
           [] c.k = "bnd" ->
                {Failed(p + 1),
                 [ok |-> TRUE, header |-> ItemHeaderInto(c.b, c.len),
                  b |-> "none", pos |-> p + 1]}
           [] c.k = "byte" ->
                {Failed(p + 1),
                 [ok |-> TRUE, header |-> DataElementHeader(GarbageTag, "UN", 0),
                  b |-> "none", pos |-> p + 1]}

\* decode_item_header(source): one item/delimiter token at offset p, or a failure
\* when the bytes there are no such token.
DecodeItemHeader(p) ==
    IF p >= Len(src) THEN {Failed(Len(src))}
    ELSE LET c == src[p + 1] IN
         IF c.k = "bnd"
         THEN {[ok |-> TRUE, header |-> ItemHeaderInto(c.b, c.len),
                b |-> c.b, pos |-> p + 1]}
         ELSE {Failed(p + 1)}

\* read_value(source, header): reads header.len bytes at offset p and decodes them.
\* A sequence header has no scalar payload: nothing is read.  A value that runs
\* past the end of the source, or holds a byte the decoding rejects, fails after
\* the bytes were consumed.
ReadValue(p, header) ==
    IF header.vr = "SQ" \/ header.len = 0
    THEN [ok |-> TRUE, value |-> <<>>, pos |-> p]
    ELSE IF header.len > Len(src) - p
    THEN [ok |-> FALSE, value |-> <<>>, pos |-> Len(src)]
    ELSE LET cells == [i \in 1..header.len |-> src[p + i]] IN
         IF \A i \in 1..header.len : cells[i].k = "byte" /\ cells[i].v \in GoodBytes
         THEN [ok |-> TRUE, value |-> [i \in 1..header.len |-> cells[i].v],
               pos |-> p + header.len]
         ELSE [ok |-> FALSE, value |-> <<>>, pos |-> p + header.len]

\* source.seek(SeekFrom::Current(0)): TRUE when the position query succeeds.
SeekOutcomes == IF unreliable THEN {TRUE, FALSE} ELSE {TRUE}

\* ----------------------------------------------------------- iterators
\* The fields set by new / new_with of either iterator.
NewIterator == [pos |-> 0, depth |-> 0, in_sequence |-> FALSE, hard_break |-> FALSE]

\* One next() call: the iterator afterwards, what was returned ("Ok", "Err" or
\* "None"), the header and payload of an "Ok" item, and the calls made to the
\* codec and to the source's position query.
Step(it, ret, header, payload, calls) ==
    [it |-> it, ret |-> ret, header |-> header, payload |-> payload, calls |-> calls]

\* A faulty variant: the end of a sequence returns to the top level.
DepthAfterDelimiterToTop(depth) == 0

\* self.depth -= 1 on a u32 (wrapping build; a checking build panics at depth 0).
DepthAfterDelimiter(depth) == IF depth = 0 THEN U32Max ELSE depth - 1

\* A faulty variant: entering a sequence does not count a level.
DepthAfterSQFlat(depth) == depth

\* self.depth += 1 on a u32.
DepthAfterSQ(depth) == IF depth = U32Max THEN 0 ELSE depth + 1

\* ------------------------------------------------- DicomElementIterator
\* A faulty variant: the hard_break test is missing.
EagerNeverExhausted(it) == FALSE

\* A faulty variant: the end of the source ends the iteration without an error.
EagerExhaustedAtEnd(it) == it.hard_break \/ it.pos >= Len(src)

\* if self.hard_break { return None; }
EagerExhausted(it) == it.hard_break

\* read_element: the value is read where the header ended.  A failed read_value
\* leaves through `?`: the error is returned and no field of the iterator is set.
EagerReadElement(it, header, calls) ==
    LET v == ReadValue(it.pos, header) IN
    IF v.ok
    THEN Step([it EXCEPT !.pos = v.pos], "Ok", header, v.value,
              Append(calls, "read_value"))
    ELSE Step([it EXCEPT !.pos = v.pos], "Err", NoHeader, <<>>,
              Append(calls, "read_value"))

\* A faulty variant: the boundary's item carries a value.
EagerCreateItemMarkerFilled(it, header, calls) == Step(it, "Ok", header, <<67>>, calls)

\* create_item_marker: the boundary as a header, value DicomValue::Empty.
EagerCreateItemMarker(it, header, calls) == Step(it, "Ok", header, <<>>, calls)

\* The in_sequence branch of next(), for one outcome o of decode_item_header.
EagerSequenceBranch(it, o) ==
    LET at == [it EXCEPT !.pos = o.pos]
        calls == <<"decode_item_header">>
    IN  IF o.ok
        THEN CASE o.b = "Item" ->
                    EagerCreateItemMarker([at EXCEPT !.in_sequence = FALSE],
                                          o.header, calls)
               [] o.b = "ItemDelimiter" ->
                    EagerCreateItemMarker([at EXCEPT !.in_sequence = TRUE],
                                          o.header, calls)
               [] o.b = "SequenceDelimiter" ->
                    EagerCreateItemMarker(
                        [at EXCEPT !.depth = DepthAfterDelimiter(at.depth),
                                   !.in_sequence = FALSE],
                        o.header, calls)
        ELSE Step([at EXCEPT !.hard_break = TRUE], "Err", NoHeader, <<>>, calls)

\* A faulty variant: the SQ check comes before the character-set check.
EagerHeaderBranchSQFirst(it, o) ==
    LET at == [it EXCEPT !.pos = o.pos]
        calls == <<"decode_header">>
    IN  IF o.ok
        THEN IF o.header.vr = "SQ"
             THEN EagerReadElement(
                      [at EXCEPT !.in_sequence = TRUE,
                                 !.depth = DepthAfterSQ(at.depth)],
                      o.header, calls)
             ELSE EagerReadElement(at, o.header, calls)
        ELSE Step([at EXCEPT !.hard_break = TRUE], "Err", NoHeader, <<>>, calls)

\* The else branch of next(), for one outcome o of decode_header.
EagerHeaderBranch(it, o) ==
    LET at == [it EXCEPT !.pos = o.pos]
        calls == <<"decode_header">>
    IN  IF o.ok
        THEN IF o.header.tag = CharSetTag
             THEN EagerReadElement(at, o.header, calls)
             ELSE IF o.header.vr = "SQ"
                  THEN EagerReadElement(
                           [at EXCEPT !.in_sequence = TRUE,
                                      !.depth = DepthAfterSQ(at.depth)],
                           o.header, calls)
                  ELSE EagerReadElement(at, o.header, calls)
        ELSE Step([at EXCEPT !.hard_break = TRUE], "Err", NoHeader, <<>>, calls)

\* DicomElementIterator::next: every step the call can take from state it.
EagerNextSteps(it) ==
    IF EagerExhausted(it)
    THEN {Step(it, "None", NoHeader, <<>>, <<>>)}
    ELSE IF it.in_sequence
         THEN {EagerSequenceBranch(it, o) : o \in DecodeItemHeader(it.pos)}
         ELSE {EagerHeaderBranch(it, o) : o \in DecodeHeader(it.pos)}

\* --------------------------------------------- LazyDicomElementIterator
\* A faulty variant: the hard_break test is missing.
LazyNeverExhausted(it) == FALSE

\* if self.hard_break { return None; }
LazyExhausted(it) == it.hard_break

\* A faulty variant: the marker is built after the value was read.
LazyCreateElementMarkerReading(it, header, calls, seekOk) ==
    IF seekOk
    THEN Step(it, "Ok", header, it.pos,
              Append(Append(calls, "read_value"), "get_position"))
    ELSE Step([it EXCEPT !.hard_break = TRUE], "Err", NoHeader, 0,
              Append(Append(calls, "read_value"), "get_position"))

\* create_element_marker: the marker holds the position the source has now, which
\* get_position asks of the source; a failed query sets hard_break.
LazyCreateElementMarker(it, header, calls, seekOk) ==
    IF seekOk
    THEN Step(it, "Ok", header, it.pos, Append(calls, "get_position"))
    ELSE Step([it EXCEPT !.hard_break = TRUE], "Err", NoHeader, 0,
              Append(calls, "get_position"))

\* A faulty variant: a failed position query does not set hard_break.
LazyCreateItemMarkerSoft(it, header, calls, seekOk) ==
    IF seekOk
    THEN Step(it, "Ok", header, it.pos, Append(calls, "get_position"))
    ELSE Step(it, "Err", NoHeader, 0, Append(calls, "get_position"))

\* create_item_marker: as create_element_marker, for a boundary.
LazyCreateItemMarker(it, header, calls, seekOk) ==
    IF seekOk
    THEN Step(it, "Ok", header, it.pos, Append(calls, "get_position"))
    ELSE Step([it EXCEPT !.hard_break = TRUE], "Err", NoHeader, 0,
              Append(calls, "get_position"))

\* The in_sequence branch of next(), for one outcome o of decode_item_header.
LazySequenceBranch(it, o, seekOk) ==
    LET at == [it EXCEPT !.pos = o.pos]
        calls == <<"decode_item_header">>
    IN  IF o.ok
        THEN CASE o.b = "Item" ->
                    LazyCreateItemMarker([at EXCEPT !.in_sequence = FALSE],
                                         o.header, calls, seekOk)
               [] o.b = "ItemDelimiter" ->
                    LazyCreateItemMarker([at EXCEPT !.in_sequence = TRUE],
                                         o.header, calls, seekOk)
               [] o.b = "SequenceDelimiter" ->
                    LazyCreateItemMarker(
                        [at EXCEPT !.depth = DepthAfterDelimiter(at.depth),
                                   !.in_sequence = FALSE],
                        o.header, calls, seekOk)
        ELSE Step([at EXCEPT !.hard_break = TRUE], "Err", NoHeader, 0, calls)

\* A faulty variant: the SQ check comes before the character-set check.
LazyHeaderBranchSQFirst(it, o, seekOk) ==
    LET at == [it EXCEPT !.pos = o.pos]
        calls == <<"decode_header">>
    IN  IF o.ok
        THEN IF o.header.vr = "SQ"
             THEN LazyCreateElementMarker(
                      [at EXCEPT !.in_sequence = TRUE,
                                 !.depth = DepthAfterSQ(at.depth)],
                      o.header, calls, seekOk)
             ELSE LazyCreateElementMarker(at, o.header, calls, seekOk)
        ELSE Step([at EXCEPT !.hard_break = TRUE], "Err", NoHeader, 0, calls)

\* The else branch of next(), for one outcome o of decode_header.
LazyHeaderBranch(it, o, seekOk) ==
    LET at == [it EXCEPT !.pos = o.pos]
        calls == <<"decode_header">>
    IN  IF o.ok
        THEN IF o.header.tag = CharSetTag
             THEN LazyCreateElementMarker(at, o.header, calls, seekOk)
             ELSE IF o.header.vr = "SQ"
                  THEN LazyCreateElementMarker(
                           [at EXCEPT !.in_sequence = TRUE,
                                      !.depth = DepthAfterSQ(at.depth)],
                           o.header, calls, seekOk)
                  ELSE LazyCreateElementMarker(at, o.header, calls, seekOk)
        ELSE Step([at EXCEPT !.hard_break = TRUE], "Err", NoHeader, 0, calls)

\* LazyDicomElementIterator::next: every step the call can take from state it.
LazyNextSteps(it) ==
    IF LazyExhausted(it)
    THEN {Step(it, "None", NoHeader, 0, <<>>)}
    ELSE IF it.in_sequence
         THEN {LazySequenceBranch(it, o, ok) :
                   o \in DecodeItemHeader(it.pos), ok \in SeekOutcomes}
         ELSE {LazyHeaderBranch(it, o, ok) :
                   o \in DecodeHeader(it.pos), ok \in SeekOutcomes}

\* ---------------------------------------------------------------- actions
Nones(out) == Cardinality({i \in 1..Len(out) : out[i].ret = "None"})

\* A caller calls next() on the eager iterator.
EagerNext ==
    /\ Nones(e_out) < MaxNone
    /\ \E s \in EagerNextSteps(eager) :
          /\ eager' = s.it
          /\ e_out' = Append(e_out, s)
    /\ UNCHANGED <<src, unreliable, lazy, l_out, markerVars>>

\* A caller calls next() on the lazy iterator.
LazyNext ==
    /\ Nones(l_out) < MaxNone
    /\ \E s \in LazyNextSteps(lazy) :
          /\ lazy' = s.it
          /\ l_out' = Append(l_out, s)
    /\ UNCHANGED <<src, unreliable, eager, e_out, markerVars>>

\* ------------------------------------------------------------- sources
\* The element headers a generated source holds.
ElementHeaders ==
    {DataElementHeader(NameTag, "PN", n) : n \in 1..MaxValueLen}
    \cup {DataElementHeader(CharSetTag, "CS", 0),
          DataElementHeader(SeqTag, "SQ", UndefinedLength),
          DataElementHeader(CharSetTag, "SQ", UndefinedLength)}

Boundaries ==
    {BoundaryCell("Item", UndefinedLength), BoundaryCell("ItemDelimiter", 0),
     BoundaryCell("SequenceDelimiter", 0)}

\* Every cell of an arbitrary (well-formed or malformed) source.
Cells ==
    {HeaderCell(h) : h \in ElementHeaders} \cup Boundaries
    \cup {ByteCell(67)} \cup {ByteCell(v) : v \in BadByte}

\* No marker operation is in progress.
NoWindow == [bound |-> FALSE, begin |-> 0, end |-> 0, current |-> 0]
NoMarker == [header |-> NoHeader, pos |-> 0]

MarkerIdle ==
    /\ marker = NoMarker
    /\ cursor = 0
    /\ window = NoWindow
    /\ win_read = <<>>
    /\ win_end = FALSE
    /\ seq_read = <<>>
    /\ seq_from = "none"

IteratorsNew ==
    /\ eager = NewIterator
    /\ e_out = <<>>
    /\ lazy = NewIterator
    /\ l_out = <<>>

\* Both iterators freshly constructed over the same arbitrary source content,
\* each with a source handle of its own; the position query may fail.
Init ==
    /\ src \in Seqs(Cells, MaxSrcLen)
    /\ unreliable = TRUE
    /\ IteratorsNew
    /\ MarkerIdle

Next == EagerNext \/ LazyNext

Spec == Init /\ [][Next]_vars

\* --------------------------------------------------- well-formed sources
\* The bytes of a well-formed value of n bytes: "CSCS..." cut to n.
ValueBytes(n) == [i \in 1..n |-> ByteCell(IF i % 2 = 1 THEN 67 ELSE 83)]

\* One well-formed flat element: its header, then header.len value bytes.
Encode(h) == <<HeaderCell(h)>> \o ValueBytes(h.len)

\* The headers of the flat elements of a generated well-formed source.
FlatHeaders ==
    {DataElementHeader(CharSetTag, "CS", 2)}
    \cup {DataElementHeader(NameTag, "PN", n) : n \in 0..MaxValueLen}

\* Well-formed flat streams of at most n elements.
RECURSIVE FlatStreams(_)
FlatStreams(n) ==
    IF n = 0 THEN {<<>>}
    ELSE FlatStreams(n - 1)
         \cup {Encode(h) \o s : h \in FlatHeaders, s \in FlatStreams(n - 1)}

\* One item: Item, its flat elements, ItemDelimiter.
ItemStreams ==
    {<<BoundaryCell("Item", UndefinedLength)>> \o body
        \o <<BoundaryCell("ItemDelimiter", 0)>> : body \in FlatStreams(MaxItemElems)}

\* At most n items in a row.
RECURSIVE ItemRuns(_)
ItemRuns(n) ==
    IF n = 0 THEN {<<>>}
    ELSE ItemRuns(n - 1) \cup {i \o r : i \in ItemStreams, r \in ItemRuns(n - 1)}

\* One sequence: SQ header of undefined length, items, SequenceDelimiter.
SequenceStreams ==
    {<<HeaderCell(DataElementHeader(SeqTag, "SQ", UndefinedLength))>> \o r
        \o <<BoundaryCell("SequenceDelimiter", 0)>> : r \in ItemRuns(MaxItems)}

\* Both iterators freshly constructed over the same well-formed, non-empty source
\* content; the source's position query never fails.
InitWF ==
    /\ src \in (FlatStreams(MaxElems) \cup SequenceStreams) \ {<<>>}
    /\ unreliable = FALSE
    /\ IteratorsNew
    /\ MarkerIdle

SpecWF == InitWF /\ [][Next]_vars

\* ------------------------------------------------------- DicomElementMarker
\* A faulty variant: the range ends one byte late.
DataStreamRangeWide(m) == [start |-> m.pos, end |-> m.pos + m.header.len + 1]

\* get_data_stream: the range handed to SeekInterval::new_at, self.pos..len with
\* len = self.header.len() as u64.
DataStreamRange(m) == [start |-> m.pos, end |-> m.header.len]

\* SeekInterval::new_at(source, range): the window over [range.start, range.end),
\* the source positioned at range.start.
SeekIntervalNewAt(range) ==
    [bound |-> TRUE, begin |-> range.start, end |-> range.end,
     current |-> range.start]

\* The number of cells one read through window w returns: none at or past the
\* window's end, none at the end of the source.
WindowReadable(w) ==
    IF w.current < w.end /\ w.current < Len(src) THEN 1 ELSE 0

\* A faulty variant: the seek goes one byte past the marker's position.
MoveToStartTargetPast(m) == m.pos + 1

\* move_to_start: the offset source.seek(SeekFrom::Start(self.pos)) goes to.
MoveToStartTarget(m) == m.pos

\* A caller binds the marker's value window.  The seek inside new_at may fail,
\* and then no window is returned.
GetDataStream ==
    /\ \E ok \in SeekOutcomes :
          IF ok
          THEN /\ window' = SeekIntervalNewAt(DataStreamRange(marker))
               /\ cursor' = DataStreamRange(marker).start
               /\ win_read' = <<>>
               /\ win_end' = FALSE
          ELSE /\ window' = NoWindow
               /\ UNCHANGED <<cursor, win_read, win_end>>
    /\ UNCHANGED <<src, unreliable, iterVars, marker, seq_read, seq_from>>

\* A caller reads one byte through the bound window.
WindowRead ==
    /\ window.bound
    /\ ~win_end
    /\ IF WindowReadable(window) = 1
       THEN /\ win_read' = Append(win_read, window.current)
            /\ window' = [window EXCEPT !.current = window.current + 1]
            /\ cursor' = window.current + 1
            /\ UNCHANGED win_end
       ELSE /\ win_end' = TRUE
            /\ UNCHANGED <<win_read, window, cursor>>
    /\ UNCHANGED <<src, unreliable, iterVars, marker, seq_read, seq_from>>

\* A caller gives the source back (the window is dropped) and moves it to the
\* marker's position.  A failed seek leaves the source where it was.
MoveToStart ==
    /\ \E ok \in SeekOutcomes :
          IF ok
          THEN /\ cursor' = MoveToStartTarget(marker)
               /\ seq_read' = <<>>
               /\ seq_from' = "start"
          ELSE UNCHANGED <<cursor, seq_read, seq_from>>
    /\ window' = NoWindow
    /\ UNCHANGED <<src, unreliable, iterVars, marker, win_read, win_end>>

\* After move_to_start, a caller reads the source sequentially, one byte a step,
\* up to the marker's declared length.
SourceRead ==
    /\ ~window.bound
    /\ seq_from = "start"
    /\ Len(seq_read) < marker.header.len
    /\ cursor < Len(src)
    /\ seq_read' = Append(seq_read, cursor)
    /\ cursor' = cursor + 1
    /\ UNCHANGED <<src, unreliable, iterVars, marker, window, win_read, win_end,
                   seq_from>>

\* Any marker a caller can hold (its fields are public), over any source of
\* value bytes.
InitMarker ==
    /\ src \in Seqs({ByteCell(v) : v \in GoodBytes}, MaxSrcLen)
    /\ unreliable \in BOOLEAN
    /\ IteratorsNew
    /\ marker \in [header : {DataElementHeader(NameTag, "PN", n) :
                                n \in 0..(MaxValueLen + 1)},
                   pos : 0..MaxSrcLen]
    /\ cursor = 0
    /\ window = NoWindow
    /\ win_read = <<>>
    /\ win_end = FALSE
    /\ seq_read = <<>>
    /\ seq_from = "none"

NextMarker == GetDataStream \/ WindowRead \/ MoveToStart \/ SourceRead

SpecMarker == InitMarker /\ [][NextMarker]_vars

\* ================================================================ claims
Min(a, b) == IF a < b THEN a ELSE b

\* out holds an earlier error item followed by something other than None.
ErrorIsLast(out) ==
    \A i, j \in 1..Len(out) :
        (i < j /\ out[i].ret = "Err") => out[j].ret = "None"

\* C1: once a next() call has returned an error item, every later next() call on
\* the same iterator returns None, for the eager and for the lazy iterator.
C1_ErrorThenNone == ErrorIsLast(e_out) /\ ErrorIsLast(l_out)

\* The source holds flat elements only: no boundary token, no SQ header.
IsFlat(s) ==
    \A i \in 1..Len(s) : s[i].k # "bnd" /\ (s[i].k = "hdr" => s[i].h.vr # "SQ")

\* The header and boundary cells of s, in order.
TokenCells(s) == SelectSeq(s, LAMBDA c : c.k # "byte")

\* The header each token cell of s stands for, in stream order.
ExpectedHeaders(s) ==
    LET t == TokenCells(s) IN
    [k \in 1..Len(t) |->
        IF t[k].k = "hdr" THEN t[k].h ELSE ItemHeaderInto(t[k].b, t[k].len)]

\* next() has reported end-of-stream.
Completed(out) == \E i \in 1..Len(out) : out[i].ret = "None"

\* The items returned before the first None.
UntilNone(out) == SelectSeq(out, LAMBDA r : r.ret # "None")

\* The run of out to its end yields exactly the elements of the flat source s.
YieldsExactly(out, s) ==
    LET items == UntilNone(out)
        hs == ExpectedHeaders(s)
    IN  /\ Len(items) = Len(hs)
        /\ \A k \in 1..Len(items) :
              items[k].ret = "Ok" /\ items[k].header = hs[k]

\* C2: for a well-formed flat stream of N elements, either iterator stepped to
\* end-of-stream has yielded exactly N items, each a success with the header of the
\* corresponding element, and no other item before end-of-stream.
C2_FlatStreamItems ==
    IsFlat(src) =>
        /\ Completed(e_out) => YieldsExactly(e_out, src)
        /\ Completed(l_out) => YieldsExactly(l_out, src)

\* The source holds one sequence: it starts with an SQ header.
IsSequenceStream(s) == Len(s) > 0 /\ s[1].k = "hdr" /\ s[1].h.vr = "SQ"

\* C3: for a stream holding one sequence the eager iterator yields, in order, one
\* success per token (SQ element, then Item, elements and ItemDelimiter of every
\* item, then SequenceDelimiter), decodes the item and delimiter tokens as
\* boundaries, and has depth 1 after every item but the SequenceDelimiter one,
\* after which depth is 0.
C3_SequenceItems ==
    IsSequenceStream(src) =>
        LET t == TokenCells(src)
            hs == ExpectedHeaders(src)
        IN  \A k \in 1..Min(Len(e_out), Len(hs)) :
               /\ e_out[k].ret = "Ok"
               /\ e_out[k].header = hs[k]
               /\ e_out[k].it.depth = (IF k = Len(hs) THEN 0 ELSE 1)
               /\ t[k].k = "bnd" => e_out[k].calls = <<"decode_item_header">>

\* C5: over the same well-formed source, the k-th step of the eager and the k-th
\* step of the lazy iterator return the same kind of result with the same header
\* and leave the same depth, in_sequence and hard_break.
C5_EagerLazyAgree ==
    \A k \in 1..Min(Len(e_out), Len(l_out)) :
        /\ e_out[k].ret = l_out[k].ret
        /\ e_out[k].header = l_out[k].header
        /\ e_out[k].it.depth = l_out[k].it.depth
        /\ e_out[k].it.in_sequence = l_out[k].it.in_sequence
        /\ e_out[k].it.hard_break = l_out[k].it.hard_break

\* The offset of the first value byte of the k-th token of s: the offset just
\* past that token's cell.
ValueOffset(s, k) ==
    CHOOSE i \in 1..Len(s) :
        /\ s[i].k # "byte"
        /\ Cardinality({j \in 1..i : s[j].k # "byte"}) = k

\* C6: for a well-formed flat stream the lazy iterator yields one marker per
\* element, the k-th with the k-th element's header and with pos the offset of
\* the first byte of that element's own value.
C6_MarkerOffsets ==
    IsFlat(src) =>
        LET hs == ExpectedHeaders(src) IN
        \A k \in 1..Min(Len(l_out), Len(hs)) :
            /\ l_out[k].ret = "Ok"
            /\ l_out[k].header = hs[k]
            /\ l_out[k].payload = ValueOffset(src, k)

\* The offsets P, P+1, ..., P+L-1.
Offsets(P, L) == [i \in 1..L |-> P + i - 1]

\* C4: for a marker with offset P and length L whose value lies in the source,
\* get_data_stream positions the source at P and reading the window to its end
\* returns exactly the L bytes at [P, P+L).
C4_WindowIsValue ==
    /\ (window.bound /\ win_read = <<>> /\ ~win_end) => cursor = marker.pos
    /\ (window.bound /\ win_end /\ marker.header.len <= Len(src) - marker.pos)
          => win_read = Offsets(marker.pos, marker.header.len)

\* The bytes located at the offsets offs of the source.
BytesAt(offs) == [i \in 1..Len(offs) |-> src[offs[i] + 1].v]

\* The sequential read of L bytes after move_to_start is finished.
SeqReadDone ==
    /\ seq_from = "start"
    /\ \/ Len(seq_read) = marker.header.len
       \/ Len(seq_read) = Len(src) - marker.pos
       \/ marker.pos >= Len(src)

\* C7: move_to_start followed by a sequential read of L bytes returns the same
\* bytes as get_data_stream on the same marker and source read to its end.
C7_RepositionEqualsWindow ==
    (win_end /\ SeqReadDone) => BytesAt(seq_read) = BytesAt(win_read)

\* C10: a window bound by get_data_stream for a marker with offset P and length L
\* never yields a byte located outside [P, P+L).
C10_WindowStaysInside ==
    \A i \in 1..Len(win_read) :
        marker.pos <= win_read[i] /\ win_read[i] < marker.pos + marker.header.len

\* A window that yielded a byte reported its end while bytes of the source
\* followed.
C10_Witness ==
    /\ window.bound
    /\ win_end
    /\ Len(win_read) >= 1
    /\ window.current < Len(src)

\* The last next() call recorded in out.
Last(out) == out[Len(out)]

\* A next() call on an iterator whose hard_break is set changes no field of the
\* iterator, calls no codec function and returns None.
InertOnceBroken(it, itNext, out, outNext) ==
    it.hard_break =>
        /\ itNext = it
        /\ outNext # out =>
              /\ outNext = Append(out, Last(outNext))
              /\ Last(outNext).ret = "None"
              /\ Last(outNext).calls = <<>>
              /\ Last(outNext).it = it

\* C8: once hard_break is set it is never cleared, and every later next() call
\* returns None without calling the codec, without moving the source and without
\* changing depth or in_sequence.
C8_BrokenIsInert ==
    [][/\ InertOnceBroken(eager, eager', e_out, e_out')
       /\ InertOnceBroken(lazy, lazy', l_out, l_out')]_vars

\* Both iterators have answered a call made after hard_break was set.
C8_Witness ==
    /\ eager.hard_break /\ Len(e_out) >= 2 /\ Last(e_out).ret = "None"
    /\ lazy.hard_break /\ Len(l_out) >= 2 /\ Last(l_out).ret = "None"

\* Once out holds a None, a further call appends a None.
StaysExhausted(out, outNext) ==
    (Completed(out) /\ outNext # out) => Last(outNext).ret = "None"

\* Over source s, the calls recorded in out reached None by call Len(s) + 2.
ReachesNone(out, s) == Len(out) >= Len(s) + 2 => Completed(out)

\* C9: over every finite source, repeated next() calls reach None after finitely
\* many calls (call number Len(src) + 2 at the latest returns None), and from then
\* on every call returns None.
C9_Finite ==
    /\ [](ReachesNone(e_out, src) /\ ReachesNone(l_out, src))
    /\ [][/\ StaysExhausted(e_out, e_out')
          /\ StaysExhausted(l_out, l_out')]_vars

\* Both iterators yielded an item for every cell of a source of the greatest
\* length, then an error, and answered every later call with None.
C9_Witness ==
    /\ Len(src) = MaxSrcLen
    /\ Len(e_out) = MaxSrcLen + 1 + MaxNone /\ Last(e_out).ret = "None"
    /\ Len(l_out) = MaxSrcLen + 1 + MaxNone /\ Last(l_out).ret = "None"

\* ------------------------------------------------------ nesting and steps
\* The iterator as it was when call k of out was made.
Before(out, k) == IF k = 1 THEN NewIterator ELSE out[k - 1].it

\* The number of the call made last.  Every call is the last one in the state it
\* leads to, so what holds of the last call in every reachable state holds of
\* every call.
LastCall(out) == IF out = <<>> THEN {} ELSE {Len(out)}

\* Call k of out ran the in_sequence branch (it asked for an item header).
AskedItemHeader(out, k) ==
    out[k].calls # <<>> /\ out[k].calls[1] = "decode_item_header"

\* Call k of out ran the else branch (it asked for an element header).
AskedHeader(out, k) ==
    out[k].calls # <<>> /\ out[k].calls[1] = "decode_header"

\* Every decrement recorded in out started from a depth of at least 1 and took
\* exactly one level off.
DecrementsFromPositive(out) ==
    \A k \in 1..Len(out) :
        (AskedItemHeader(out, k) /\ out[k].it.depth # Before(out, k).depth)
            => /\ Before(out, k).depth >= 1
               /\ out[k].it.depth = Before(out, k).depth - 1

\* Neither iterator has in_sequence set at depth 0, a wrapped depth, or a
\* decrement from depth 0 in its past.
NeverUnderflowed ==
    /\ eager.in_sequence => eager.depth >= 1
    /\ lazy.in_sequence => lazy.depth >= 1
    /\ eager.depth < U32Max /\ lazy.depth < U32Max
    /\ DecrementsFromPositive(e_out) /\ DecrementsFromPositive(l_out)

\* C11: the nesting depth never underflows.  In every reachable state of either
\* iterator, over well-formed and malformed sources alike, a set in_sequence
\* flag comes with a depth of at least 1, and every decrement at a
\* SequenceDelimiter started from a depth of at least 1.
C11_NoUnderflow == []NeverUnderflowed

\* Over a source that opens a sequence and closes it twice, both iterators took
\* the depth from 1 to 0 at the first SequenceDelimiter and answered one more
\* call at the second.
C11_Witness ==
    /\ Len(src) = 3
    /\ src[2] = BoundaryCell("SequenceDelimiter", 0)
    /\ src[3] = BoundaryCell("SequenceDelimiter", 0)
    /\ Len(e_out) >= 3 /\ AskedItemHeader(e_out, 2)
    /\ e_out[1].it.depth = 1 /\ e_out[2].it.depth = 0 /\ eager.depth = 0
    /\ Len(l_out) >= 3 /\ AskedItemHeader(l_out, 2)
    /\ l_out[1].it.depth = 1 /\ l_out[2].it.depth = 0 /\ lazy.depth = 0

\* The item/delimiter token at offset p of the source, "none" when there is none.
TokenAt(p) == IF p < Len(src) /\ src[p + 1].k = "bnd" THEN src[p + 1].b ELSE "none"

\* Call k of out, when made with in_sequence set, did what is said of a step that
\* awaits a boundary: it asked the codec for an item header and for nothing else;
\* at an Item it cleared the flag, at an ItemDelimiter it kept it, at a
\* SequenceDelimiter it took one level off the depth and cleared the flag, the
\* depth being left alone otherwise; in all three cases it returned the boundary
\* as an item, or, where positionMayFail, the error of the position query with
\* hard_break set; when no token could be decoded it set hard_break, left depth
\* and flag alone and returned the error.
InSequenceStep(out, k, positionMayFail) ==
    LET b == Before(out, k)
        s == out[k]
        a == out[k].it
        t == TokenAt(b.pos)
    IN  (b.in_sequence /\ ~b.hard_break) =>
          /\ AskedItemHeader(out, k)
          /\ \A i \in 1..Len(s.calls) : s.calls[i] \notin {"decode_header", "read_value"}
          /\ IF t # "none"
             THEN /\ a.in_sequence = (t = "ItemDelimiter")
                  /\ a.depth = IF t = "SequenceDelimiter" THEN b.depth - 1 ELSE b.depth
                  /\ \/ /\ s.ret = "Ok"
                        /\ s.header = ItemHeaderInto(t, src[b.pos + 1].len)
                        /\ ~a.hard_break
                     \/ /\ positionMayFail
                        /\ s.ret = "Err"
                        /\ s.calls = <<"decode_item_header", "get_position">>
                        /\ a.hard_break
             ELSE /\ s.ret = "Err"
                  /\ a.hard_break
                  /\ a.depth = b.depth
                  /\ a.in_sequence = b.in_sequence

\* The eager item of a boundary has the value Empty.
BoundaryValueEmpty ==
    \A k \in LastCall(e_out) :
        (AskedItemHeader(e_out, k) /\ e_out[k].ret = "Ok") => e_out[k].payload = <<>>

\* C12 as stated: with in_sequence set, a step of either iterator calls only
\* decode_item_header; Item clears the flag, ItemDelimiter keeps it,
\* SequenceDelimiter decrements the depth and clears the flag, and in all three
\* cases the step produces one structural marker item (eager: value Empty); a
\* decode failure sets hard_break, leaves depth and flag unchanged and returns
\* the error.
C12_AlwaysMarker ==
    /\ \A k \in LastCall(e_out) : InSequenceStep(e_out, k, FALSE)
    /\ \A k \in LastCall(l_out) : InSequenceStep(l_out, k, FALSE)
    /\ BoundaryValueEmpty

\* Every call made with in_sequence set did what is said of such a step, the
\* lazy iterator's position query being allowed to fail.
InSequenceSteps ==
    /\ \A k \in LastCall(e_out) : InSequenceStep(e_out, k, FALSE)
    /\ \A k \in LastCall(l_out) : InSequenceStep(l_out, k, TRUE)
    /\ BoundaryValueEmpty

\* C12, amended: as stated, except that the lazy iterator, when its position
\* query fails after the boundary was decoded, returns that error with
\* hard_break set instead of the marker item, the flag and the depth having
\* changed as the boundary says.
C12_InSequenceStep == []InSequenceSteps

\* Over [SQ header, ItemDelimiter, SequenceDelimiter] the eager iterator returned
\* both boundaries as items, and the lazy iterator returned the first and failed
\* to query the position at the second.
C12_Witness ==
    /\ Len(src) = 3
    /\ src[2] = BoundaryCell("ItemDelimiter", 0)
    /\ src[3] = BoundaryCell("SequenceDelimiter", 0)
    /\ Len(e_out) = 3 /\ e_out[1].it.in_sequence
    /\ e_out[2].ret = "Ok" /\ e_out[3].ret = "Ok" /\ eager.depth = 0
    /\ Len(l_out) = 3 /\ l_out[1].it.in_sequence
    /\ l_out[2].ret = "Ok" /\ l_out[3].ret = "Err"
    /\ l_out[3].calls = <<"decode_item_header", "get_position">>
    /\ lazy.depth = 0 /\ lazy.hard_break

\* The header a successful decode_header returns at offset p.
DecodedHeader(p) == (CHOOSE o \in DecodeHeader(p) : o.ok).header

\* Call k of out was made with in_sequence clear and its decode_header succeeded
\* (the step went on to read the value or to query the position).
HeaderDecoded(out, k) ==
    /\ ~Before(out, k).in_sequence
    /\ ~Before(out, k).hard_break
    /\ AskedHeader(out, k)
    /\ Len(out[k].calls) = 2

\* Call k of out entered a sequence exactly when the decoded header has VR SQ
\* (and, where charSetFirst, a tag other than (0008,0005)): then the flag is set
\* and the depth one higher; otherwise both are as before.
HeaderStepState(out, k, charSetFirst) ==
    LET b == Before(out, k)
        a == out[k].it
        h == DecodedHeader(b.pos)
    IN  IF h.vr = "SQ" /\ (charSetFirst => h.tag # CharSetTag)
        THEN a.in_sequence /\ a.depth = b.depth + 1
        ELSE a.in_sequence = b.in_sequence /\ a.depth = b.depth

\* Call k of out returned the decoded element as its item.
ElementItem(out, k) ==
    out[k].ret = "Ok" /\ out[k].header = DecodedHeader(Before(out, k).pos)

\* C13 as stated: with in_sequence clear, a decoded header with VR SQ sets the
\* flag, adds one to the depth and still yields the element's item; a header with
\* any other VR leaves depth and flag unchanged and yields one item.
C13_SQByVROnly ==
    /\ \A k \in LastCall(e_out) :
          HeaderDecoded(e_out, k)
              => HeaderStepState(e_out, k, FALSE) /\ ElementItem(e_out, k)
    /\ \A k \in LastCall(l_out) :
          HeaderDecoded(l_out, k)
              => HeaderStepState(l_out, k, FALSE) /\ ElementItem(l_out, k)

\* Every call whose decode_header succeeded entered a sequence exactly for VR SQ
\* with a tag other than (0008,0005), and returned the element or an error.
HeaderSteps ==
    /\ \A k \in LastCall(e_out) :
          HeaderDecoded(e_out, k)
              => /\ HeaderStepState(e_out, k, TRUE)
                 /\ ElementItem(e_out, k) \/ e_out[k].ret = "Err"
    /\ \A k \in LastCall(l_out) :
          HeaderDecoded(l_out, k)
              => /\ HeaderStepState(l_out, k, TRUE)
                 /\ \/ ElementItem(l_out, k)
                    \/ l_out[k].ret = "Err" /\ l_out[k].it.hard_break

\* C13, amended: a decoded header with VR SQ and a tag other than (0008,0005)
\* sets the flag and adds one to the depth; any other header (another VR, or the
\* tag (0008,0005) with any VR) leaves both unchanged; either way the step yields
\* one item, the element or the error of reading its value (eager) or of
\* querying the position (lazy, with hard_break set).
C13_HeaderStep == []HeaderSteps

\* Over a source that starts with a (0008,0005) header of VR SQ and goes on with
\* an SQ header of another tag, both iterators yielded both elements and entered
\* one sequence only.
C13_Witness ==
    /\ Len(src) >= 2
    /\ src[1] = HeaderCell(DataElementHeader(CharSetTag, "SQ", UndefinedLength))
    /\ src[2] = HeaderCell(DataElementHeader(SeqTag, "SQ", UndefinedLength))
    /\ Len(e_out) = 2 /\ e_out[1].ret = "Ok" /\ e_out[2].ret = "Ok"
    /\ e_out[1].it.depth = 0 /\ eager.depth = 1 /\ eager.in_sequence
    /\ Len(l_out) = 2 /\ l_out[1].ret = "Ok" /\ l_out[2].ret = "Ok"
    /\ l_out[1].it.depth = 0 /\ lazy.depth = 1 /\ lazy.in_sequence

\* Call k of out failed in the position query made to build a marker.
PositionFailed(out, k) ==
    /\ out[k].ret = "Err"
    /\ Len(out[k].calls) = 2
    /\ out[k].calls[2] = "get_position"

\* Every failed position query of the lazy iterator set hard_break and was
\* followed by None only.
PositionFailureEnds ==
    \A k \in 1..Len(l_out) :
        PositionFailed(l_out, k)
            => /\ l_out[k].it.hard_break
               /\ \A j \in (k + 1)..Len(l_out) : l_out[j].ret = "None"

\* C14: in the lazy iterator a position query that fails while a marker is built,
\* for an element or for an item boundary, sets hard_break as a header decode
\* error does: the step returns the error and every later step returns None.
C14_PositionFailureIsTerminal == []PositionFailureEnds

\* The lazy iterator decoded a boundary, failed to query the position, and
\* answered two more calls.
C14_Witness ==
    \E k \in 1..Len(l_out) :
        /\ PositionFailed(l_out, k)
        /\ AskedItemHeader(l_out, k)
        /\ Len(l_out) = k + 2
        /\ Last(l_out).ret = "None"

\* ------------------------------------------------------ nested sequences
\* The cells of a source of nested sequences: an SQ header of undefined length,
\* the three item/delimiter tokens, and a plain element without value bytes.
NestCells ==
    {HeaderCell(DataElementHeader(SeqTag, "SQ", UndefinedLength)),
     HeaderCell(DataElementHeader(NameTag, "PN", 0)),
     BoundaryCell("Item", UndefinedLength),
     BoundaryCell("SequenceDelimiter", 0)}

\* Both iterators freshly constructed over the same source of sequence headers,
\* tokens and plain elements in any order, nested as deep as the length allows;
\* the source's position query never fails.
InitNested ==
    /\ src \in Seqs(NestCells, MaxNestLen)
    /\ unreliable = FALSE
    /\ IteratorsNew
    /\ MarkerIdle

SpecNested == InitNested /\ [][Next]_vars

\* The calls of out that entered a sequence: decode_header returned a header
\* with VR SQ that is not the character-set attribute.
Entered(out) ==
    {k \in 1..Len(out) :
        /\ HeaderDecoded(out, k)
        /\ DecodedHeader(Before(out, k).pos).vr = "SQ"
        /\ DecodedHeader(Before(out, k).pos).tag # CharSetTag}

\* The calls of out that observed a SequenceDelimiter boundary.
Closed(out) ==
    {k \in 1..Len(out) :
        /\ Before(out, k).in_sequence
        /\ AskedItemHeader(out, k)
        /\ TokenAt(Before(out, k).pos) = "SequenceDelimiter"}

\* After every sequence end recorded in out the flag is clear, and the call
\* after it, if one was made before hard_break was set, asked for an element
\* header.
HeaderAfterSequenceEnd(out) ==
    \A k \in Closed(out) :
        /\ ~out[k].it.in_sequence
        /\ (k < Len(out) /\ ~out[k].it.hard_break) => AskedHeader(out, k + 1)

\* C15: with sequences nested more than one level deep, the depth is the number
\* of SQ headers entered minus the number of SequenceDelimiter boundaries
\* observed, and a SequenceDelimiter clears in_sequence whatever depth remains:
\* after an inner sequence ends at depth >= 1 the next step decodes a regular
\* element header.
C15_DepthCounts ==
    /\ eager.depth = Cardinality(Entered(e_out)) - Cardinality(Closed(e_out))
    /\ lazy.depth = Cardinality(Entered(l_out)) - Cardinality(Closed(l_out))
    /\ HeaderAfterSequenceEnd(e_out)
    /\ HeaderAfterSequenceEnd(l_out)

\* Over [SQ header, Item, SQ header, SequenceDelimiter, plain element] both
\* iterators reached depth 2, came back to depth 1 at the inner sequence's end
\* and then decoded the plain element as a regular element header.
C15_Witness ==
    /\ Len(src) = 5
    /\ Len(e_out) = 5 /\ e_out[3].it.depth = 2 /\ 4 \in Closed(e_out)
    /\ e_out[4].it.depth = 1 /\ AskedHeader(e_out, 5) /\ e_out[5].ret = "Ok"
    /\ e_out[5].header = DataElementHeader(NameTag, "PN", 0)
    /\ Len(l_out) = 5 /\ l_out[3].it.depth = 2 /\ 4 \in Closed(l_out)
    /\ l_out[4].it.depth = 1 /\ AskedHeader(l_out, 5) /\ l_out[5].ret = "Ok"
    /\ l_out[5].header = DataElementHeader(NameTag, "PN", 0)

\* ---------------------------------------------------------- shared source
\* The lazy iterator and the marker operations of a caller work on one source
\* (a handle such as &File, whose position both sides move).  cursor is that
\* source's position; lazy.pos is the position it had when the last next()
\* returned, which is what a caller saves to put the source back.  What was read
\* through a window or after move_to_start is forgotten once the window is
\* dropped or the source is moved by someone else.
SharedCells ==
    {HeaderCell(DataElementHeader(NameTag, "PN", n)) : n \in {0, MaxValueLen}}
    \cup {ByteCell(67)}

\* next() on the shared source: the decoding starts where the source is.
SharedLazyNext ==
    /\ ~window.bound
    /\ Len(l_out) < MaxSharedCalls
    /\ \E s \in LazyNextSteps([lazy EXCEPT !.pos = cursor]) :
          /\ lazy' = s.it
          /\ l_out' = Append(l_out, s)
          /\ cursor' = s.it.pos
    /\ win_read' = <<>>
    /\ win_end' = FALSE
    /\ seq_read' = <<>>
    /\ seq_from' = "none"
    /\ UNCHANGED <<src, unreliable, eager, e_out, marker, window>>

\* The caller picks one of the markers the iterator yielded.
TakeMarker ==
    /\ ~window.bound
    /\ \E k \in 1..Len(l_out) :
          /\ l_out[k].ret = "Ok"
          /\ marker' = [header |-> l_out[k].header, pos |-> l_out[k].payload]
    /\ marker' # marker
    /\ win_read' = <<>>
    /\ win_end' = FALSE
    /\ seq_read' = <<>>
    /\ seq_from' = "none"
    /\ UNCHANGED <<src, unreliable, iterVars, cursor, window>>

\* The caller drops the window and leaves the source where the reads took it.
ReleaseWindow ==
    /\ window.bound
    /\ window' = NoWindow
    /\ win_read' = <<>>
    /\ win_end' = FALSE
    /\ UNCHANGED <<src, unreliable, iterVars, marker, cursor, seq_read, seq_from>>

\* The caller puts the source back where the iterator left it.
Restore ==
    /\ cursor # lazy.pos
    /\ cursor' = lazy.pos
    /\ window' = NoWindow
    /\ win_read' = <<>>
    /\ win_end' = FALSE
    /\ seq_read' = <<>>
    /\ seq_from' = "none"
    /\ UNCHANGED <<src, unreliable, iterVars, marker>>

\* A lazy iterator freshly constructed over a non-empty flat source it shares
\* with the caller; the source's seeks never fail.
InitShared ==
    /\ src \in Seqs(SharedCells, MaxSrcLen) \ {<<>>}
    /\ unreliable = FALSE
    /\ IteratorsNew
    /\ MarkerIdle

NextShared ==
    \/ SharedLazyNext
    \/ TakeMarker
    \/ GetDataStream
    \/ WindowRead
    \/ ReleaseWindow
    \/ MoveToStart
    \/ SourceRead
    \/ Restore

SpecShared == InitShared /\ [][NextShared]_vars

\* The step appended to outNext decoded at offset p: it consumed the cell there,
\* and yielded the element whose header is encoded there with the offset after it.
DecodedAt(p, itNext, outNext) ==
    /\ itNext.pos = IF p < Len(src) THEN p + 1 ELSE Len(src)
    /\ (p < Len(src) /\ src[p + 1].k = "hdr")
           => /\ Last(outNext).ret = "Ok"
              /\ Last(outNext).header = src[p + 1].h
              /\ Last(outNext).payload = p + 1

\* C16: move_to_start and get_data_stream change the shared source's position
\* (to the marker's offset) and nothing of the iterator; the next() that follows
\* decodes wherever the source was left, hence at the marker's offset after a
\* marker operation; when the caller has put the source back to the position it
\* had, the step is a step of the iterator running alone.
C16_SharedPosition ==
    /\ [][(MoveToStart \/ GetDataStream)
              => (cursor' = marker.pos /\ lazy' = lazy /\ l_out' = l_out)]_vars
    /\ [][(SharedLazyNext /\ ~lazy.hard_break) => DecodedAt(cursor, lazy', l_out')]_vars
    /\ [][Restore => (cursor' = lazy.pos /\ lazy' = lazy /\ l_out' = l_out)]_vars
    /\ [][(SharedLazyNext /\ cursor = lazy.pos)
              => Last(l_out') \in LazyNextSteps(lazy)]_vars

\* Over a source of two elements the iterator yielded both, the caller moved the
\* source to the first marker's offset, and the next step yielded the second
\* element again.
C16_Witness ==
    /\ Len(src) = 2
    /\ Len(l_out) = 3
    /\ marker.pos = l_out[1].payload
    /\ l_out[3].ret = "Ok"
    /\ l_out[3] = l_out[2]

\* The codec calls of one step: its calls without the source's position query.
CodecCalls(s) ==
    IF s.calls # <<>> /\ s.calls[Len(s.calls)] = "get_position"
    THEN SubSeq(s.calls, 1, Len(s.calls) - 1)
    ELSE s.calls

\* Call k of out made at most one header-level decode, the one the flag chooses,
\* and none once hard_break was set.
OneHeaderDecode(out, k) ==
    LET b == Before(out, k)
        c == CodecCalls(out[k])
    IN  /\ b.hard_break => c = <<>>
        /\ (~b.hard_break /\ b.in_sequence) => c = <<"decode_item_header">>
        /\ (~b.hard_break /\ ~b.in_sequence)
               => c \in {<<"decode_header">>, <<"decode_header", "read_value">>}

\* Every recorded call made the codec calls it may make and no other.
CodecCallsBounded ==
    /\ \A k \in LastCall(e_out) :
          /\ OneHeaderDecode(e_out, k)
          /\ CodecCalls(e_out[k]) = <<"decode_header", "read_value">>
                 => \E o \in DecodeHeader(Before(e_out, k).pos) : o.ok
          /\ CodecCalls(e_out[k]) = <<"decode_header">>
                 => e_out[k].ret = "Err" /\ e_out[k].it.hard_break
    /\ \A k \in LastCall(l_out) :
          /\ OneHeaderDecode(l_out, k)
          /\ \A i \in 1..Len(l_out[k].calls) : l_out[k].calls[i] # "read_value"

\* C17: every next() call makes at most one header-level decode, decode_header
\* or decode_item_header as in_sequence says and never both; the eager iterator
\* makes at most one read_value, only after a decode_header that succeeded and
\* never for an item boundary; the lazy iterator never calls read_value.
C17_CodecCalls == []CodecCallsBounded

\* Both iterators decoded an SQ header and then an Item: the eager one read a
\* value at the header and none at the boundary, the lazy one read none.
C17_Witness ==
    /\ Len(e_out) = 2
    /\ e_out[1].calls = <<"decode_header", "read_value">>
    /\ e_out[2].calls = <<"decode_item_header">> /\ e_out[2].ret = "Ok"
    /\ Len(l_out) = 2
    /\ l_out[1].calls = <<"decode_header", "get_position">>
    /\ l_out[2].calls = <<"decode_item_header", "get_position">>
    /\ l_out[2].ret = "Ok"

\* Every None recorded in out was returned with hard_break already set, by a call
\* that came right after an error item or after another None; the first None
\* came right after an error item.
NoneOnlyAfterError(out) ==
    \A k \in 1..Len(out) :
        out[k].ret = "None"
            => /\ Before(out, k).hard_break
               /\ k > 1
               /\ out[k - 1].ret \in {"Err", "None"}
               /\ (\A j \in 1..(k - 1) : out[j].ret # "None") => out[k - 1].ret = "Err"

\* Every None of either iterator came with hard_break set, the first right
\* after an error item.
NonesFollowErrors == NoneOnlyAfterError(e_out) /\ NoneOnlyAfterError(l_out)

\* C18: next() returns None only when hard_break is already set, so the first
\* None of any run comes immediately after a step that returned an error item
\* (the end of the input is not told apart from a failure).
C18_NoneOnlyAfterError == []NonesFollowErrors

\* Both iterators yielded an item, then an error item, then their first None.
C18_Witness ==
    /\ Len(e_out) = 3 /\ e_out[1].ret = "Ok" /\ e_out[2].ret = "Err"
    /\ e_out[3].ret = "None"
    /\ Len(l_out) = 3 /\ l_out[1].ret = "Ok" /\ l_out[2].ret = "Err"
    /\ l_out[3].ret = "None"

\* Call k of out decoded a header with the tag (0008,0005).
CharSetDecoded(out, k) ==
    HeaderDecoded(out, k) /\ DecodedHeader(Before(out, k).pos).tag = CharSetTag

\* Call k of out left depth and in_sequence as they were.
NestingUnchanged(out, k) ==
    /\ out[k].it.depth = Before(out, k).depth
    /\ out[k].it.in_sequence = Before(out, k).in_sequence

\* The eager item of call k carries the value read after the header.
WithValueRead(k) ==
    /\ ElementItem(e_out, k)
    /\ e_out[k].calls = <<"decode_header", "read_value">>
    /\ e_out[k].payload
           = ReadValue(Before(e_out, k).pos + 1, e_out[k].header).value

\* The lazy item of call k carries the position the source has after the header.
WithCurrentPosition(k) ==
    /\ ElementItem(l_out, k)
    /\ l_out[k].payload = l_out[k].it.pos
    /\ l_out[k].payload = Before(l_out, k).pos + 1

\* C19 as stated: a header with the tag (0008,0005) is handled before the SQ
\* check: whatever its VR (SQ too) the step leaves depth and in_sequence
\* unchanged and produces one item, the eager one with the value read, the lazy
\* one with the current position.
C19_CharSetAlwaysYields ==
    /\ \A k \in LastCall(e_out) :
          CharSetDecoded(e_out, k) => NestingUnchanged(e_out, k) /\ WithValueRead(k)
    /\ \A k \in LastCall(l_out) :
          CharSetDecoded(l_out, k)
              => NestingUnchanged(l_out, k) /\ WithCurrentPosition(k)

\* Every call that decoded a (0008,0005) header left the nesting unchanged and
\* returned the element or the error of reading / of the position query.
CharSetSteps ==
    /\ \A k \in LastCall(e_out) :
          CharSetDecoded(e_out, k)
              => /\ NestingUnchanged(e_out, k)
                 /\ \/ WithValueRead(k)
                    \/ /\ e_out[k].ret = "Err"
                       /\ e_out[k].calls = <<"decode_header", "read_value">>
    /\ \A k \in LastCall(l_out) :
          CharSetDecoded(l_out, k)
              => /\ NestingUnchanged(l_out, k)
                 /\ \/ WithCurrentPosition(k)
                    \/ PositionFailed(l_out, k) /\ l_out[k].it.hard_break

\* C19, amended: as stated, except that the item is an error item when reading
\* the value (eager) or querying the position (lazy, with hard_break set) fails.
C19_CharSetFirst == []CharSetSteps

\* Both iterators decoded a (0008,0005) header of VR SQ at the start of the
\* source and yielded it at depth 0 with in_sequence clear; a second such header
\* follows, at which the lazy iterator failed to query the position.
C19_Witness ==
    /\ Len(src) >= 2
    /\ src[1] = HeaderCell(DataElementHeader(CharSetTag, "SQ", UndefinedLength))
    /\ src[2] = src[1]
    /\ Len(e_out) = 2 /\ e_out[1].ret = "Ok" /\ e_out[2].ret = "Ok"
    /\ e_out[2].header.vr = "SQ" /\ eager.depth = 0 /\ ~eager.in_sequence
    /\ Len(l_out) = 2 /\ l_out[1].ret = "Ok" /\ l_out[1].payload = 1
    /\ PositionFailed(l_out, 2) /\ lazy.depth = 0 /\ ~lazy.in_sequence

====
